---- MODULE Spec2Model ----
(***************************************************************************)
(* Model of the Custom-RAG indexer (index_code.py) and retrieval server    *)
(* (server.py).  Text is a sequence of one-character strings, so that      *)
(* joining and splitting are computed and not assumed.                     *)
(***************************************************************************)
EXTENDS Integers, Sequences, FiniteSets, TLC

\* ---------------------------------------------------------------- bounds
MaxLines == 3      \* longest file, in lines
MaxTok == 3        \* largest token count of one line
MaxB == 2          \* largest token budget tried
MaxFileLines == 2  \* longest file of the indexed tree, in lines
MaxRuns == 2       \* indexing runs over the same tree
MaxQuery == 3      \* longest query string, in characters
NReq == 2          \* retrieve requests in flight together

\* ------------------------------------------------------ program constants
ResultCap == 25    \* server.py: table.search(search_terms).limit(25)

\* ------------------------------------------------------------------ text
NL == "\n"

\* the lines a file is made of (str.splitlines() never leaves a newline in one)
LineTexts == {<<>>, <<"a">>, <<"b">>}

RECURSIVE JoinWith(_, _)
\* sep.join(parts): the parts with sep between consecutive ones, "" for no part
JoinWith(sep, parts) ==
  IF parts = <<>> THEN <<>>
  ELSE IF Len(parts) = 1 THEN parts[1]
  ELSE parts[1] \o <<sep>> \o JoinWith(sep, Tail(parts))

RECURSIVE SplitOn(_, _)
\* text.split(sep): the inverse of JoinWith on a non-empty list; "" gives [""]
SplitOn(sep, text) ==
  IF \A k \in 1..Len(text) : text[k] # sep THEN <<text>>
  ELSE LET k == CHOOSE j \in 1..Len(text) :
                  text[j] = sep /\ \A m \in 1..(j - 1) : text[m] # sep
       IN <<SubSeq(text, 1, k - 1)>> \o SplitOn(sep, SubSeq(text, k + 1, Len(text)))

RECURSIVE Flatten(_)
Flatten(ss) == IF ss = <<>> THEN <<>> ELSE ss[1] \o Flatten(Tail(ss))

RECURSIVE SumTok(_, _)
\* total token count of a list of lines under tokenizer tk
SumTok(tk, ls) == IF ls = <<>> THEN 0 ELSE tk[ls[1]] + SumTok(tk, Tail(ls))

SeqsUpTo(S, n) == UNION {[1..k -> S] : k \in 0..n}

\* ----------------------------------------------------------------- state
VARIABLES
  lines,        \* chunk: path.read_text().splitlines()
  tokenizer,    \* chunk: line |-> len(tokenizer.encode(line))
  max_tokens,   \* chunk: the budget
  pos,          \* chunk: number of lines the for loop has consumed
  buf,          \* chunk: buf
  count,        \* chunk: count
  yielded,      \* chunk: the strings yielded so far, in yield order
  yieldedBufs,  \* chunk: the value of buf at each yield
  cpc           \* chunk: "loop" | "done"

VARIABLES
  content,        \* index: file number in Tree |-> its lines
  include_hidden, \* index: --include-hidden
  excluded_dirs,  \* index: --exclude-dirs
  extensions,     \* index: the extension set, in its iteration order
  tableExists,    \* index: TABLE in db.table_names()
  store,          \* the records of table code_chunks, in insertion order
  preStore,       \* index: store as the current run found it
  files,          \* index_codebase: files
  fi,             \* index_codebase: position of the outer for loop in files
  ci,             \* index_codebase: chunks of the current file consumed
  ipc,            \* index: "idle" | "running" | "failed" | "done"
  embedCalls,     \* index: client.embeddings.create calls of the current run
  runs            \* index: runs started

VARIABLES
  req,            \* server: request number |-> its payload, position and locals
  rake,           \* server: the ranked phrases held by the shared _rake instance
  stopwords       \* server: the stop words _rake was built with

chunkVars == <<lines, tokenizer, max_tokens, pos, buf, count, yielded, yieldedBufs, cpc>>
indexVars == <<content, include_hidden, excluded_dirs, extensions, tableExists, store,
               preStore, files, fi, ci, ipc, embedCalls, runs>>
serverVars == <<req, rake, stopwords>>
vars == <<chunkVars, indexVars, serverVars>>

\* fullInput: str | None = None
None == <<"None">>

IdleRequest ==
  [stage |-> "idle", query |-> <<>>, fullInput |-> None, analysis |-> <<>>,
   keywords |-> <<>>, search_terms |-> <<>>, status |-> 0, response |-> <<>>,
   log |-> <<>>, overlap |-> FALSE]

ServerIdle ==
  /\ req = [r \in 1..NReq |-> IdleRequest]
  /\ rake = <<>>
  /\ stopwords = {}

\* tokenizers: the empty line has no token, any other line has at least one
Tokenizers == {tk \in [LineTexts -> 0..MaxTok] :
                 \A l \in LineTexts : (tk[l] = 0) <=> (l = <<>>)}

\* ------------------------------------------------------------- chunk()
ShouldFlushLax(c, t, B) == c + t > B + 1

\* line 86: if count + t > max_tokens
ShouldFlush(c, t, B) == c + t > B

FinalFlushSkipped(b) == <<>>

\* lines 91-92: if buf: yield '\n'.join(buf)
FinalFlush(b) == IF b # <<>> THEN <<JoinWith(NL, b)>> ELSE <<>>

\* the body of the for loop, lines 85-90, on the generator's locals
ChunkStep(st, line, tk, B) ==
  LET t == tk[line]
      flush == ShouldFlush(st.count, t, B)
  IN [buf |-> Append(IF flush THEN <<>> ELSE st.buf, line),
      count |-> (IF flush THEN 0 ELSE st.count) + t,
      out |-> IF flush THEN Append(st.out, JoinWith(NL, st.buf)) ELSE st.out,
      bufs |-> IF flush THEN Append(st.bufs, st.buf) ELSE st.bufs]

RECURSIVE ChunkFold(_, _, _, _)
ChunkFold(st, ls, tk, B) ==
  IF ls = <<>> THEN st ELSE ChunkFold(ChunkStep(st, ls[1], tk, B), Tail(ls), tk, B)

\* list(chunk(path, tokenizer, max_tokens)): everything the generator yields
ChunkAll(ls, tk, B) ==
  LET st == ChunkFold([buf |-> <<>>, count |-> 0, out |-> <<>>, bufs |-> <<>>], ls, tk, B)
  IN st.out \o FinalFlush(st.buf)

IndexIdle ==
  /\ content = <<>>
  /\ include_hidden = FALSE
  /\ excluded_dirs = {}
  /\ extensions = <<>>
  /\ tableExists = FALSE
  /\ store = <<>>
  /\ preStore = <<>>
  /\ files = <<>>
  /\ fi = 0
  /\ ci = 0
  /\ ipc = "idle"
  /\ embedCalls = 0
  /\ runs = 0

InitChunk ==
  /\ IndexIdle
  /\ ServerIdle
  /\ lines \in SeqsUpTo(LineTexts, MaxLines)
  /\ tokenizer \in Tokenizers
  /\ max_tokens \in 1..MaxB
  /\ pos = 0
  /\ buf = <<>>
  /\ count = 0
  /\ yielded = <<>>
  /\ yieldedBufs = <<>>
  /\ cpc = "loop"

\* one iteration of the for loop, lines 84-90
ChunkLoop ==
  /\ cpc = "loop"
  /\ pos < Len(lines)
  /\ LET st == ChunkStep([buf |-> buf, count |-> count, out |-> yielded,
                           bufs |-> yieldedBufs], lines[pos + 1], tokenizer, max_tokens)
     IN /\ yielded' = st.out
        /\ yieldedBufs' = st.bufs
        /\ buf' = st.buf
        /\ count' = st.count
  /\ pos' = pos + 1
  /\ UNCHANGED <<lines, tokenizer, max_tokens, cpc, indexVars, serverVars>>

\* the loop is exhausted, lines 91-92
ChunkEnd ==
  /\ cpc = "loop"
  /\ pos = Len(lines)
  /\ yielded' = yielded \o FinalFlush(buf)
  /\ yieldedBufs' = IF FinalFlush(buf) # <<>> THEN Append(yieldedBufs, buf) ELSE yieldedBufs
  /\ cpc' = "done"
  /\ UNCHANGED <<lines, tokenizer, max_tokens, pos, buf, count, indexVars, serverVars>>

NextChunk == ChunkLoop \/ ChunkEnd

SpecChunk == InitChunk /\ [][NextChunk]_vars

\* ------------------------------------------------------ index_codebase()
\* the source tree: .g/x.p (hidden directory), b/y.t, s/z.m, in traversal order
Tree == << << <<".", "g">>, <<"x", ".", "p">> >>,
           << <<"b">>, <<"y", ".", "t">> >>,
           << <<"s">>, <<"z", ".", "m">> >> >>

\* the indexed files are made of a short line and a long one
IndexLineTexts == {<<"a">>, <<"b">>}
IndexTokenizers == {tk \in Tokenizers : tk[<<"a">>] = 1}

\* line 77: any(part.startswith('.') for part in path.parts)
is_hidden(parts) ==
  \E k \in 1..Len(parts) : parts[k] # <<>> /\ parts[k][1] = "."

\* line 108: the file name matches the pattern *.ext
MatchesExt(parts, ext) ==
  LET name == parts[Len(parts)]
      suffix == <<".">> \o ext
  IN /\ Len(name) >= Len(suffix)
     /\ SubSeq(name, Len(name) - Len(suffix) + 1, Len(name)) = suffix

\* line 112: any(ex in f.parts for ex in excluded_dirs)
InExcludedDir(parts, excl) ==
  \E ex \in excl : \E k \in 1..Len(parts) : parts[k] = ex

\* lines 106-114: the files list, one glob per extension
SelectFiles(exts, hidden, excl) ==
  Flatten([e \in 1..Len(exts) |->
            SelectSeq([i \in 1..Len(Tree) |-> i],
                      LAMBDA i : /\ MatchesExt(Tree[i], exts[e])
                                 /\ (hidden \/ ~is_hidden(Tree[i]))
                                 /\ ~InExcludedDir(Tree[i], excl))])

\* str(f)
PathStr(parts) == JoinWith("/", parts)

\* the provider's answer for a text: a value that depends on the text alone
Embedding(text) == <<"vec", text>>

\* line 122: {"filename": str(f), "text": text, "vector": np.array(emb)}
Record(i, text) ==
  [filename |-> PathStr(Tree[i]), text |-> text, vector |-> Embedding(text)]

\* line 118: the chunks of file i of the tree
FileChunks(i) == ChunkAll(content[i], tokenizer, max_tokens)

\* lines 185-195: the table is opened if it exists and created empty otherwise
OpenOrCreate(exists, recs) == IF exists THEN recs ELSE <<>>

EmbedErrorRetried == "running"

\* lines 119-120: an exception of embeddings.create is not caught, the run ends
EmbedError == "failed"

\* index_codebase calls chunk with its default budget (max_tokens = 4096); the
\* budget and the token counts are scaled down together, so that lines below,
\* at and above the budget all occur
InitIndex ==
  /\ ServerIdle
  /\ lines = <<>>
  /\ pos = 0
  /\ buf = <<>>
  /\ count = 0
  /\ yielded = <<>>
  /\ yieldedBufs = <<>>
  /\ cpc = "idle"
  /\ tokenizer \in IndexTokenizers
  /\ max_tokens \in 1..MaxB
  /\ content \in {c \in [1..Len(Tree) -> SeqsUpTo(IndexLineTexts, MaxFileLines)] : c[3] = <<>>}
  /\ include_hidden \in BOOLEAN
  /\ excluded_dirs \in {{}, {<<"b">>}}
  /\ extensions \in {<<<<"p">>, <<"t">>>>, <<<<"t">>, <<"p">>>>}
  /\ tableExists = FALSE
  /\ store = <<>>
  /\ preStore = <<>>
  /\ files = <<>>
  /\ fi = 0
  /\ ci = 0
  /\ ipc = "idle"
  /\ embedCalls = 0
  /\ runs = 0

indexInputs == <<chunkVars, serverVars, content, include_hidden, excluded_dirs, extensions>>

\* a run starts: lines 184-195 open the table, lines 106-115 list the files
IndexStart ==
  /\ ipc \in {"idle", "done"}
  /\ runs < MaxRuns
  /\ runs' = runs + 1
  /\ store' = OpenOrCreate(tableExists, store)
  /\ preStore' = store'
  /\ tableExists' = TRUE
  /\ files' = SelectFiles(extensions, include_hidden, excluded_dirs)
  /\ fi' = 1
  /\ ci' = 0
  /\ embedCalls' = 0
  /\ ipc' = "running"
  /\ UNCHANGED indexInputs

\* lines 118-122: the next chunk is embedded and its record added
IndexChunk ==
  /\ ipc = "running"
  /\ fi <= Len(files)
  /\ LET ch == FileChunks(files[fi])
     IN /\ ci < Len(ch)
        /\ store' = Append(store, Record(files[fi], ch[ci + 1]))
  /\ embedCalls' = embedCalls + 1
  /\ ci' = ci + 1
  /\ UNCHANGED <<indexInputs, tableExists, preStore, files, fi, ipc, runs>>

\* lines 119-120: embeddings.create raises
IndexEmbedFails ==
  /\ ipc = "running"
  /\ fi <= Len(files)
  /\ ci < Len(FileChunks(files[fi]))
  /\ embedCalls' = embedCalls + 1
  /\ ipc' = EmbedError
  /\ UNCHANGED <<indexInputs, tableExists, store, preStore, files, fi, ci, runs>>

\* line 123: the file's chunks are exhausted, the outer loop moves on
IndexNextFile ==
  /\ ipc = "running"
  /\ fi <= Len(files)
  /\ ci = Len(FileChunks(files[fi]))
  /\ fi' = fi + 1
  /\ ci' = 0
  /\ UNCHANGED <<indexInputs, tableExists, store, preStore, files, ipc, embedCalls, runs>>

\* the outer loop is exhausted: index_codebase returns
IndexEnd ==
  /\ ipc = "running"
  /\ fi > Len(files)
  /\ ipc' = "done"
  /\ UNCHANGED <<indexInputs, tableExists, store, preStore, files, fi, ci, embedCalls, runs>>

NextIndex == IndexStart \/ IndexChunk \/ IndexEmbedFails \/ IndexNextFile \/ IndexEnd

SpecIndex == InitIndex /\ [][NextIndex]_vars

\* -------------------------------------------------------- index: claims
\* the processing sequence: files in selection order, chunks in chunk order
ProcessingSequence ==
  LET sel == SelectFiles(extensions, include_hidden, excluded_dirs)
  IN Flatten([k \in 1..Len(sel) |->
               LET ch == FileChunks(sel[k])
               IN [c \in 1..Len(ch) |-> <<sel[k], ch[c]>>]])

RecordsOf(ps) ==
  [k \in 1..Len(ps) |-> [filename |-> PathStr(Tree[ps[k][1]]),
                         text |-> ps[k][2],
                         vector |-> Embedding(ps[k][2])]]

Written == Len(store) - Len(preStore)

\* C7: during and after a run the store is its pre-run records followed by one
\* record per chunk of a prefix of the processing sequence; a failed embedding
\* call ends the run with that prefix kept and no further call made; runs that
\* all complete leave every chunk's record once per run
IndexAppendInOrder ==
  LET ps == ProcessingSequence
  IN /\ ipc # "idle" =>
          /\ Written \in 0..Len(ps)
          /\ store = preStore \o RecordsOf(SubSeq(ps, 1, Written))
          /\ embedCalls = Written + (IF ipc = "failed" THEN 1 ELSE 0)
          /\ ipc = "failed" => Written < Len(ps)
          /\ ipc = "done" => Written = Len(ps)
     /\ (ipc = "done" /\ runs = 2) => store = RecordsOf(ps) \o RecordsOf(ps)

\* C7 witness: a second run failed after writing part of a sequence of at least
\* three chunks from two files, on top of the first run's records
IndexAppendWitness ==
  /\ ipc = "failed"
  /\ runs = 2
  /\ Len(ProcessingSequence) >= 3
  /\ Written >= 2
  /\ Written < Len(ProcessingSequence)
  /\ preStore # <<>>
  /\ store[Len(preStore) + 1].filename # store[Len(store)].filename

\* -------------------------------------------------------- chunk: claims
TotalTokens == SumTok(tokenizer, lines)

Oversized(l) == tokenizer[l] > max_tokens

\* the lines of a yielded chunk: the inverse of the join that built it
LinesOfChunk(c) == SplitOn(NL, c)

\* C1: once chunk is exhausted, the lines of the yielded chunks, concatenated
\* in yield order, are exactly the input lines
ChunkerRoundTrip ==
  cpc = "done" =>
    Flatten([i \in 1..Len(yielded) |-> LinesOfChunk(yielded[i])]) = lines

NoEmptyChunk ==
  \A i \in 1..Len(yieldedBufs) : Len(yieldedBufs[i]) >= 1

\* ------------------------------------------------------------ server.py
\* the characters of a request's strings
QueryChars == {" ", "a", "b", ","}

Queries == SeqsUpTo(QueryChars, MaxQuery)

FullInputs == {None, <<>>, <<" ">>, <<"a">>, <<"b">>, <<"a", ",", "b">>}

Separators == {" ", ",", ".", "/", NL}

RECURSIVE WordScan(_, _)
WordScan(text, cur) ==
  IF text = <<>> THEN (IF cur = <<>> THEN <<>> ELSE <<cur>>)
  ELSE IF Head(text) \in Separators
       THEN (IF cur = <<>> THEN <<>> ELSE <<cur>>) \o WordScan(Tail(text), <<>>)
       ELSE WordScan(Tail(text), Append(cur, Head(text)))

\* the words of a text: its maximal runs of characters that are no separators
WordsOf(text) == WordScan(text, <<>>)

RECURSIVE Strip(_)
\* str.strip(): the text without its leading and trailing whitespace
Strip(text) ==
  IF text = <<>> THEN <<>>
  ELSE IF Head(text) = " " THEN Strip(Tail(text))
  ELSE IF text[Len(text)] = " " THEN Strip(SubSeq(text, 1, Len(text) - 1))
  ELSE text

\* the truth value of an optional string: None and "" are false
Truthy(v) == v # None /\ v # <<>>

AnalysisTextTrimmed(query, fullInput) ==
  IF fullInput # None /\ Strip(fullInput) # <<>> THEN fullInput ELSE query

\* line 37: payload.fullInput or payload.query
AnalysisText(query, fullInput) == IF Truthy(fullInput) THEN fullInput ELSE query

InvalidInputNever(text) == FALSE

\* line 38: not text_to_analyze.strip()
InvalidInput(text) == Strip(text) = <<>>

RECURSIVE PhraseScan(_, _, _)
\* the maximal runs of words between stop words
PhraseScan(words, stop, cur) ==
  IF words = <<>> THEN (IF cur = <<>> THEN <<>> ELSE <<cur>>)
  ELSE IF Head(words) \in stop
       THEN (IF cur = <<>> THEN <<>> ELSE <<cur>>) \o PhraseScan(Tail(words), stop, <<>>)
       ELSE PhraseScan(Tail(words), stop, Append(cur, Head(words)))

\* the candidate phrases of a text: punctuation and stop words end a phrase
CandidatePhrases(stop, text) ==
  LET parts == SplitOn(",", text)
  IN Flatten([k \in 1..Len(parts) |-> PhraseScan(WordsOf(parts[k]), stop, <<>>)])

RECURSIVE RankInsert(_, _)
\* p placed into a ranked list: longer phrases first, equal ones in text order
RankInsert(ranked, p) ==
  IF ranked = <<>> THEN <<p>>
  ELSE IF Len(p) > Len(Head(ranked)) THEN <<p>> \o ranked
  ELSE <<Head(ranked)>> \o RankInsert(Tail(ranked), p)

RECURSIVE RankAll(_, _)
RankAll(ranked, ps) ==
  IF ps = <<>> THEN ranked ELSE RankAll(RankInsert(ranked, Head(ps)), Tail(ps))

\* lines 41-42: what _rake holds after extract_keywords_from_text(text), as
\* get_ranked_phrases() returns it: each phrase is its words joined by a space
RankedPhrases(stop, text) ==
  LET ranked == RankAll(<<>>, CandidatePhrases(stop, text))
  IN [k \in 1..Len(ranked) |-> JoinWith(" ", ranked[k])]

SearchTermsNoFallback(keywords, query) == JoinWith(" ", keywords)

\* line 43: " ".join(keywords) or payload.query
SearchTerms(keywords, query) ==
  LET joined == JoinWith(" ", keywords)
  IN IF joined # <<>> THEN joined ELSE query

\* a record matches a search string if they share a word, in text or filename
RecordMatches(rec, terms) ==
  \E k \in 1..Len(WordsOf(terms)) :
    \/ \E j \in 1..Len(WordsOf(rec.text)) : WordsOf(rec.text)[j] = WordsOf(terms)[k]
    \/ \E j \in 1..Len(WordsOf(rec.filename)) : WordsOf(rec.filename)[j] = WordsOf(terms)[k]

\* line 45: table.search(search_terms): the matching records, ranked (the rank
\* of the Store is fixed for a store and a search string: here insertion order)
SearchStore(recs, terms) == SelectSeq(recs, LAMBDA rec : RecordMatches(rec, terms))

LimitOffByOne(hits, n) == SubSeq(hits, 1, IF Len(hits) <= n THEN Len(hits) ELSE n + 1)

\* line 45: .limit(25).to_list()
Limit(hits, n) == SubSeq(hits, 1, IF Len(hits) < n THEN Len(hits) ELSE n)

\* lines 46-53: one result per hit
ToResults(hits) ==
  [i \in 1..Len(hits) |-> [name |-> hits[i].filename,
                          description |-> hits[i].filename,
                          content |-> hits[i].text]]

HandlerSuspends == TRUE

\* lines 41-42: retrieve is a coroutine with no await between
\* extract_keywords_from_text and get_ranked_phrases, so the event loop
\* cannot run another request between them
HandlerYields == FALSE

\* the tables the server may be started on: records as index_codebase writes them
StoreTexts == << <<"a">>, <<"b">>, <<"a", NL, "b">> >>
StoreOf(n) ==
  [k \in 1..n |-> Record(1 + (k % 2), StoreTexts[1 + (k % Len(StoreTexts))])]
StoreSizes == {0, 1, ResultCap, ResultCap + 1}

InitServer ==
  /\ lines = <<>>
  /\ pos = 0
  /\ buf = <<>>
  /\ count = 0
  /\ yielded = <<>>
  /\ yieldedBufs = <<>>
  /\ cpc = "idle"
  /\ tokenizer = [l \in LineTexts |-> Len(l)]
  /\ max_tokens = 1
  /\ content = <<>>
  /\ include_hidden = FALSE
  /\ excluded_dirs = {}
  /\ extensions = <<>>
  /\ tableExists = TRUE
  /\ store \in {StoreOf(n) : n \in StoreSizes}
  /\ preStore = <<>>
  /\ files = <<>>
  /\ fi = 0
  /\ ci = 0
  /\ ipc = "idle"
  /\ embedCalls = 0
  /\ runs = 0
  /\ req = [r \in 1..NReq |-> IdleRequest]
  /\ rake = <<>>
  /\ stopwords \in {{}, {<<"a">>}, {<<"a">>, <<"b">>}}

\* a POST /retrieve arrives with a valid body
Arrive(r, query, fullInput) ==
  /\ req[r].stage = "idle"
  /\ req' = [req EXCEPT ![r] = [@ EXCEPT !.stage = "arrived", !.query = query,
                                         !.fullInput = fullInput]]
  /\ UNCHANGED <<chunkVars, indexVars, rake, stopwords>>

\* lines 15-20 and 31: the dependency get_code_chunks_table is resolved before
\* the body of retrieve runs
Resolve(r) ==
  /\ req[r].stage = "arrived"
  /\ req' = [req EXCEPT ![r] = [@ EXCEPT !.stage = "resolved",
               !.log = @ \o <<"connect", "open_table", "create_fts_index">>]]
  /\ UNCHANGED <<chunkVars, indexVars, rake, stopwords>>

\* lines 37-53: the body of retrieve
Handle(r) ==
  /\ req[r].stage \in {"resolved", "extracted"}
  /\ LET q == req[r]
         text == AnalysisText(q.query, q.fullInput)
         loaded == IF q.stage = "resolved" THEN RankedPhrases(stopwords, text) ELSE rake
         terms == SearchTerms(loaded, q.query)
         hits == Limit(SearchStore(store, terms), ResultCap)
         busy == \E o \in 1..NReq : o # r /\ req[o].stage \in {"arrived", "resolved"}
     IN IF q.stage = "resolved" /\ InvalidInput(text)
        THEN /\ req' = [req EXCEPT ![r] = [q EXCEPT !.stage = "done", !.status = 400,
                                                    !.analysis = text, !.overlap = busy]]
             /\ rake' = rake
        ELSE /\ rake' = loaded
             /\ IF HandlerYields /\ q.stage = "resolved"
                THEN req' = [req EXCEPT ![r] = [q EXCEPT !.stage = "extracted",
                                                         !.analysis = text]]
                ELSE req' = [req EXCEPT ![r] =
                               [q EXCEPT !.stage = "done", !.status = 200,
                                         !.analysis = text, !.keywords = loaded,
                                         !.search_terms = terms,
                                         !.log = @ \o <<"search">>,
                                         !.response = ToResults(hits),
                                         !.overlap = busy]]
  /\ UNCHANGED <<chunkVars, indexVars, stopwords>>

\* one request at a time, over every payload
NextRetrieve ==
  \/ \E q \in Queries, f \in FullInputs : Arrive(1, q, f)
  \/ Resolve(1)
  \/ Handle(1)

SpecRetrieve == InitServer /\ [][NextRetrieve]_vars

ConcurrentPayloads ==
  {[query |-> <<"a">>, fullInput |-> None],
   [query |-> <<"b">>, fullInput |-> None],
   [query |-> <<" ">>, fullInput |-> <<>>],
   [query |-> <<"b">>, fullInput |-> <<"a">>],
   [query |-> <<"a">>, fullInput |-> <<"a", ",", "b">>]}

\* the event loop serves NReq requests, in any interleaving of their steps
NextConcurrent ==
  \E r \in 1..NReq :
    \/ \E p \in ConcurrentPayloads : Arrive(r, p.query, p.fullInput)
    \/ Resolve(r)
    \/ Handle(r)

SpecConcurrent == InitServer /\ [][NextConcurrent]_vars

\* ------------------------------------------------------- server: claims
Handled(r) == req[r].stage = "done"

Served(r) == Handled(r) /\ req[r].status = 200

DependencyLog == <<"connect", "open_table", "create_fts_index">>

EmptyPayload(r) == req[r].query = <<>> /\ req[r].fullInput \in {None, <<>>}

\* C4: the analysis text is fullInput when it is present and non-empty after
\* trimming and the query otherwise, and a request with a blank or absent
\* fullInput and a non-blank query is not rejected
AnalysisTextSelection ==
  \A r \in 1..NReq :
    Handled(r) =>
      /\ req[r].analysis = AnalysisTextTrimmed(req[r].query, req[r].fullInput)
      /\ ((req[r].fullInput = None \/ Strip(req[r].fullInput) = <<>>)
           /\ Strip(req[r].query) # <<>>) => req[r].status = 200

OwnPhrasesOnly ==
  \A r \in 1..NReq :
    Served(r) =>
      req[r].search_terms =
        LET own == RankedPhrases(stopwords, AnalysisText(req[r].query, req[r].fullInput))
        IN IF own # <<>> THEN JoinWith(" ", own) ELSE req[r].query

\* C6 witness: two requests served while the other was in flight, with
\* different phrases
OwnPhrasesWitness ==
  \E r \in 1..NReq : \E o \in 1..NReq :
    /\ r # o
    /\ Served(r) /\ Served(o)
    /\ req[r].overlap
    /\ req[r].keywords # <<>> /\ req[o].keywords # <<>>
    /\ req[r].keywords # req[o].keywords
    /\ rake = req[o].keywords

\* C8: the search string of a served request is the extractor's ranked phrases
\* joined by single spaces in rank order, and the raw query when there is none
SearchStringConstruction ==
  \A r \in 1..NReq :
    Served(r) =>
      /\ req[r].keywords = RankedPhrases(stopwords, req[r].analysis)
      /\ req[r].keywords # <<>> => req[r].search_terms = JoinWith(" ", req[r].keywords)
      /\ req[r].keywords = <<>> => req[r].search_terms = req[r].query

\* C8 witness: the analysis text was fullInput, no phrase came out of it, and
\* the search string is the query
SearchStringWitness ==
  \E r \in 1..NReq :
    /\ Served(r)
    /\ req[r].analysis = req[r].fullInput
    /\ req[r].keywords = <<>>
    /\ req[r].query # req[r].fullInput
    /\ Strip(req[r].query) # <<>>
    /\ req[r].search_terms = req[r].query

\* C9: a served request returns one result per hit of the search limited to 25,
\* in the Store's order, each {name: filename, description: filename,
\* content: text}: at most 25, and none when nothing matches
ResultCapAndShape ==
  \A r \in 1..NReq :
    Served(r) =>
      LET all == SearchStore(store, req[r].search_terms)
          n == IF Len(all) < ResultCap THEN Len(all) ELSE ResultCap
      IN /\ Len(req[r].response) <= ResultCap
         /\ Len(req[r].response) = n
         /\ \A i \in 1..n :
              req[r].response[i] = [name |-> all[i].filename,
                                    description |-> all[i].filename,
                                    content |-> all[i].text]

\* C9 witness: more than 25 records match and 25 results are returned
ResultCapWitness ==
  \E r \in 1..NReq :
    /\ Served(r)
    /\ Len(SearchStore(store, req[r].search_terms)) > ResultCap
    /\ Len(req[r].response) = ResultCap

====
